---- MODULE Spec2Model ----
(***************************************************************************)
(* Model of the two chat backends of the repository.                       *)
(*   Service A (src/app.py): prompt assembly, the retry loop around the    *)
(*     generation call, and the /api/submit handler.                       *)
(*   Service B (src/charan.py): the /get_response handler with its         *)
(*     exact-match lookup in the chatbot_responses table.                  *)
(* Text is modelled as a sequence of one-character strings so that         *)
(* lower(), strip(), substring tests and f-string formatting are computed. *)
(***************************************************************************)
EXTENDS Integers, Sequences, FiniteSets, TLC

(* ------------------------------ bounds -------------------------------- *)
\* largest value of the retries argument a direct caller passes
MaxRetries == 7
\* longest history a request carries
MaxTurns == 2
\* number of request slots of Service B that may be in flight together
NumReqs == 2
\* number of requests Service B receives in one run of the model
MaxRequests == 4

(* ------------------------- program constants -------------------------- *)
DefaultRetries == 3
InitialBackoff == 1
BackoffCap == 10
StatusOk == 200
StatusError == 500

(* ------------------------------- text --------------------------------- *)
UpperChars == <<"A","B","C","D","E","F","G","H","I","J","K","L","M","N","O","P","Q","R","S","T","U","V","W","X","Y","Z">>
LowerChars == <<"a","b","c","d","e","f","g","h","i","j","k","l","m","n","o","p","q","r","s","t","u","v","w","x","y","z">>
DigitChars == <<"0","1","2","3","4","5","6","7","8","9">>
Whitespace == {" ", "\n", "\t", "\r"}

\* the lower-case letter of each upper-case letter
LowerTable ==
  [c \in { UpperChars[i] : i \in 1..Len(UpperChars) } |->
     LowerChars[CHOOSE i \in 1..Len(UpperChars) : UpperChars[i] = c]]

LowerChar(c) == IF c \in DOMAIN LowerTable THEN LowerTable[c] ELSE c

\* str.lower()
LowerStr(s) == [i \in 1..Len(s) |-> LowerChar(s[i])]

\* the Python test  sub in s
Contains(s, sub) ==
  \E i \in 0..(Len(s) - Len(sub)) :
    \A k \in 1..Len(sub) : s[i + k] = sub[k]

\* s.startswith(p)
StartsWith(s, p) == Len(p) <= Len(s) /\ SubSeq(s, 1, Len(p)) = p

RECURSIVE StripLeft(_)
StripLeft(s) ==
  IF s # <<>> /\ Head(s) \in Whitespace THEN StripLeft(Tail(s)) ELSE s

RECURSIVE StripRight(_)
StripRight(s) ==
  IF s # <<>> /\ s[Len(s)] \in Whitespace
  THEN StripRight(SubSeq(s, 1, Len(s) - 1))
  ELSE s

\* str.strip()
Strip(s) == StripRight(StripLeft(s))

RECURSIVE NatToStr(_)
NatToStr(n) ==
  IF n < 10 THEN <<DigitChars[n + 1]>>
  ELSE NatToStr(n \div 10) \o <<DigitChars[(n % 10) + 1]>>

\* str(n), as an f-string formats an int
IntToStr(n) == IF n < 0 THEN <<"-">> \o NatToStr(0 - n) ELSE NatToStr(n)

Min(a, b) == IF a < b THEN a ELSE b

(* ------------------- Service A: literals of app.py -------------------- *)
Marker403 == <<"4","0","3">>
MarkerLeaked == <<"l","e","a","k","e","d">>
MarkerInvalid == <<"i","n","v","a","l","i","d">>
MarkerPermission == <<"p","e","r","m","i","s","s","i","o","n">>

\* "Generative API error: "
PrefixNonRetryable == <<"G","e","n","e","r","a","t","i","v","e"," ","A","P","I"," ","e","r","r","o","r",":"," ">>
\* "Generative API failed after "
PrefixExhausted == <<"G","e","n","e","r","a","t","i","v","e"," ","A","P","I"," ","f","a","i","l","e","d"," ","a","f","t","e","r"," ">>
\* " attempts: "
InfixAttempts == <<" ","a","t","t","e","m","p","t","s",":"," ">>
\* "Internal server error"
InternalServerError == <<"I","n","t","e","r","n","a","l"," ","s","e","r","v","e","r"," ","e","r","r","o","r">>
UserRole == <<"u","s","e","r">>
YouPrefix == <<"Y","o","u",":"," ">>
BotPrefix == <<"B","o","t",":"," ">>
Newline == <<"\n">>

(* ----------------------- inputs of Service A -------------------------- *)
\* messages of the exceptions the generation call raises
FailureMessages ==
  { <<"t","i","m","e","o","u","t">>,
    <<"p","e","r","m"," ","4","0"," ","3">>,
    <<"H","T","T","P"," ","4","0","3">>,
    <<"K","e","y"," ","L","E","A","K","E","D">>,
    <<"I","n","v","a","l","i","d"," ","k","e","y">>,
    <<"P","e","r","m","i","s","s","i","o","n">> }

\* response.text of a successful generation call
ResponseTexts == { <<" ","h","i","\n">>, <<"o","k">> }

\* the turns of a request: dicts with an optional role
Turns ==
  { [role |-> UserRole, content |-> <<"h","i">>],
    [role |-> <<"b","o","t">>, content |-> <<"h","e","l","l","o">>],
    [content |-> <<"x">>] }

RECURSIVE SeqsUpTo(_, _)
SeqsUpTo(S, n) ==
  IF n = 0 THEN { <<>> }
  ELSE LET shorter == SeqsUpTo(S, n - 1)
       IN shorter \cup { Append(h, t) : h \in shorter, t \in S }

Histories == SeqsUpTo(Turns, MaxTurns)

RetriesArgs == (0 - 1)..MaxRetries

(* -------------------- Service A: pure functions ----------------------- *)
\* msg.get('content', '')
GetContent(msg) == IF "content" \in DOMAIN msg THEN msg.content ELSE <<>>

\* msg.get('role') == 'user'
IsUserTurn(msg) == "role" \in DOMAIN msg /\ msg.role = UserRole

RenderTurnBotOnlyIfBot(msg) ==
  IF "role" \in DOMAIN msg /\ msg.role = <<"b","o","t">>
  THEN BotPrefix \o GetContent(msg) \o Newline
  ELSE YouPrefix \o GetContent(msg) \o Newline

\* one loop iteration of the prompt assembly
RenderTurn(msg) ==
  IF IsUserTurn(msg)
  THEN YouPrefix \o GetContent(msg) \o Newline
  ELSE BotPrefix \o GetContent(msg) \o Newline

RECURSIVE BuildConversation(_)
BuildConversation(history) ==
  IF history = <<>> THEN <<>>
  ELSE RenderTurn(Head(history)) \o BuildConversation(Tail(history))

IsNonRetryableNoLower(e) ==
  \/ Contains(e, Marker403)
  \/ Contains(e, MarkerLeaked)
  \/ Contains(e, MarkerInvalid)
  \/ Contains(e, MarkerPermission)

\* msg = str(e).lower(); '403' in msg or 'leaked' in msg or ...
IsNonRetryable(e) ==
  LET msg == LowerStr(e)
  IN \/ Contains(msg, Marker403)
     \/ Contains(msg, MarkerLeaked)
     \/ Contains(msg, MarkerInvalid)
     \/ Contains(msg, MarkerPermission)

\* RuntimeError(f"Generative API error: {e}")
NonRetryableError(e) == PrefixNonRetryable \o e

ExhaustedErrorSameAsNonRetryable(n, e) == PrefixNonRetryable \o e

\* RuntimeError(f"Generative API failed after {retries} attempts: {e}")
ExhaustedError(n, e) == PrefixExhausted \o IntToStr(n) \o InfixAttempts \o e

NextBackoffUncapped(b) == b * 2

\* backoff = min(backoff * 2, 10)
NextBackoff(b) == Min(b * 2, BackoffCap)

ReturnValueUntrimmed(text) == text

\* return response.text.strip()
ReturnValue(text) == Strip(text)

\* if attempt < retries
MayRetry(a, n) == a < n

(* ------------------------------ state --------------------------------- *)
VARIABLES
  \* Service A, one request at a time
  pcA,           \* "idle" | "attempting" | "returned" | "returned_none" | "raised"
                 \* | "bad_history" | "escaped"
  caller,        \* "none" | "http" | "direct"
  history,       \* the history argument of the run
  conversation,  \* the prompt built from the history
  retries,       \* the retries argument of the run
  attempt,       \* the loop variable
  backoff,
  last_exc,      \* message of the last exception caught
  result,        \* text returned by chat_with_gemini
  error,         \* message of the RuntimeError raised by chat_with_gemini
  resp,          \* the HTTP answer of handle_submit
  calls,         \* log: number of generate_content calls of the run
  events,        \* log: the calls and sleeps of the run, in order
  \* Service B
  store,         \* rows of chatbot_responses, in rowid order
  bpc,           \* per request: "idle" | "miss" | "generated" | "done" | "failed"
  user_input,
  bot_response,
  was_hit,       \* per request: the SELECT returned a row
  reqCalls,      \* log: capability calls made by the current request
  genCalls,      \* log: capability calls per question
  genFails,      \* log: capability calls per question that raised
  inserts,       \* log: INSERT statements executed per question
  overlapped,    \* log: some request began while another was in flight
  served         \* log: number of requests received so far

varsA == <<pcA, caller, history, conversation, retries, attempt, backoff, last_exc,
           result, error, resp, calls, events>>
varsB == <<store, bpc, user_input, bot_response, was_hit, reqCalls, genCalls,
           genFails, inserts, overlapped, served>>
vars == <<pcA, caller, history, conversation, retries, attempt, backoff, last_exc,
          result, error, resp, calls, events,
          store, bpc, user_input, bot_response, was_hit, reqCalls, genCalls,
          genFails, inserts, overlapped, served>>

NoResponse == [status |-> 0, body |-> {}]

CallEvent(n, ok, text) ==
  [type |-> "call", attempt |-> n, ok |-> ok, text |-> text, secs |-> 0]
SleepEvent(n, secs) ==
  [type |-> "sleep", attempt |-> n, ok |-> FALSE, text |-> <<>>, secs |-> secs]

(* ------------------------ Service A: actions -------------------------- *)
\* entry of chat_with_gemini: build the prompt, set up the loop; an empty
\* range(1, retries + 1) falls off the end of the function (returns None)
EnterChat(h, n) ==
  /\ history' = h
  /\ conversation' = BuildConversation(h)
  /\ retries' = n
  /\ backoff' = InitialBackoff
  /\ last_exc' = <<>>
  /\ attempt' = 1
  /\ pcA' = IF n >= 1 THEN "attempting" ELSE "returned_none"
  /\ result' = <<>>
  /\ error' = <<>>
  /\ calls' = 0
  /\ events' = <<>>

\* POST /api/submit with a well-formed body: chat_with_gemini(history)
HandleSubmit(h) ==
  /\ pcA = "idle"
  /\ caller' = "http"
  /\ resp' = NoResponse
  /\ EnterChat(h, DefaultRetries)
  /\ UNCHANGED varsB

\* bodies of POST /api/submit that are not {history: [turn, ...]}
MalformedBodies == {"no_json", "not_object", "history_no_len", "turn_not_object"}

\* str(e) of the exceptions such a body leads to
\* "'NoneType' object has no attribute 'get'"
MsgNoneHasNoGet == <<"'","N","o","n","e","T","y","p","e","'"," ","o","b","j","e","c","t"," ","h","a","s"," ","n","o"," ","a","t","t","r","i","b","u","t","e"," ","'","g","e","t","'">>
\* "'list' object has no attribute 'get'"
MsgListHasNoGet == <<"'","l","i","s","t","'"," ","o","b","j","e","c","t"," ","h","a","s"," ","n","o"," ","a","t","t","r","i","b","u","t","e"," ","'","g","e","t","'">>
\* "'str' object has no attribute 'get'"
MsgStrHasNoGet == <<"'","s","t","r","'"," ","o","b","j","e","c","t"," ","h","a","s"," ","n","o"," ","a","t","t","r","i","b","u","t","e"," ","'","g","e","t","'">>
\* "object of type 'int' has no len()"
MsgIntHasNoLen == <<"o","b","j","e","c","t"," ","o","f"," ","t","y","p","e"," ","'","i","n","t","'"," ","h","a","s"," ","n","o"," ","l","e","n","(",")">>
\* "415 Unsupported Media Type"
MsgUnsupportedMedia == <<"4","1","5"," ","U","n","s","u","p","p","o","r","t","e","d"," ","M","e","d","i","a"," ","T","y","p","e">>

\* the exception a malformed body raises in handle_submit, by the line
\* that raises it: request.get_json() rejects a body that is no JSON, or
\* returns None for it and data.get fails; data.get fails on a JSON value
\* that is no object; len(history) fails on a number; msg.get fails on a
\* turn that is a string
MalformedFailures(kind) ==
  CASE kind = "no_json" -> { MsgUnsupportedMedia, MsgNoneHasNoGet }
    [] kind = "not_object" -> { MsgListHasNoGet }
    [] kind = "history_no_len" -> { MsgIntHasNoLen }
    [] kind = "turn_not_object" -> { MsgStrHasNoGet }

\* whether the failing line lies inside the try block of handle_submit:
\* lines 65-66 (get_json, data.get) precede it, lines 68-69 are in it
RaisedInsideTry(kind) == kind \in {"history_no_len", "turn_not_object"}

\* POST /api/submit with a malformed body
HandleMalformed(kind) ==
  /\ pcA = "idle"
  /\ caller' = "http"
  /\ resp' = NoResponse
  /\ \E msg \in MalformedFailures(kind) : error' = msg
  /\ pcA' = IF RaisedInsideTry(kind) THEN "bad_history" ELSE "escaped"
  /\ UNCHANGED <<history, conversation, retries, attempt, backoff, last_exc,
                 result, calls, events>>
  /\ UNCHANGED varsB

\* a direct call chat_with_gemini(history, retries=n)
CallChat(h, n) ==
  /\ pcA = "idle"
  /\ caller' = "direct"
  /\ resp' = NoResponse
  /\ EnterChat(h, n)
  /\ UNCHANGED varsB

\* one loop iteration in which generate_content returns
AttemptSucceeds(text) ==
  /\ pcA = "attempting"
  /\ calls' = calls + 1
  /\ events' = Append(events, CallEvent(attempt, TRUE, text))
  /\ result' = ReturnValue(text)
  /\ pcA' = "returned"
  /\ UNCHANGED <<caller, history, conversation, retries, attempt, backoff,
                 last_exc, error, resp>>
  /\ UNCHANGED varsB

\* one loop iteration in which generate_content raises an exception e
AttemptFails(e) ==
  /\ pcA = "attempting"
  /\ calls' = calls + 1
  /\ last_exc' = e
  /\ IF IsNonRetryable(e)
     THEN /\ error' = NonRetryableError(e)
          /\ pcA' = "raised"
          /\ events' = Append(events, CallEvent(attempt, FALSE, e))
          /\ UNCHANGED <<attempt, backoff>>
     ELSE IF MayRetry(attempt, retries)
     THEN /\ events' = events \o <<CallEvent(attempt, FALSE, e),
                                   SleepEvent(attempt, backoff)>>
          /\ backoff' = NextBackoff(backoff)
          /\ attempt' = attempt + 1
          /\ UNCHANGED <<pcA, error>>
     ELSE /\ error' = ExhaustedError(retries, e)
          /\ pcA' = "raised"
          /\ events' = Append(events, CallEvent(attempt, FALSE, e))
          /\ UNCHANGED <<attempt, backoff>>
  /\ UNCHANGED <<caller, history, conversation, retries, result, resp>>
  /\ UNCHANGED varsB

JsonOk(text) == [status |-> StatusOk, body |-> { <<"response", text>> }]

JsonErrorNoDetail(detail) ==
  [status |-> StatusError, body |-> { <<"error", InternalServerError>> }]

\* jsonify({'error': 'Internal server error', 'detail': str(e)}), 500
JsonError(detail) ==
  [status |-> StatusError,
   body |-> { <<"error", InternalServerError>>, <<"detail", detail>> }]

\* handle_submit answers: the return of the try block or the except clause
Respond ==
  /\ caller = "http"
  /\ resp = NoResponse
  /\ \/ /\ pcA = "returned"
        /\ resp' = JsonOk(result)
     \/ /\ pcA \in {"raised", "bad_history"}
        /\ resp' = JsonError(error)
  /\ UNCHANGED <<pcA, caller, history, conversation, retries, attempt,
                 backoff, last_exc, result, error, calls, events>>
  /\ UNCHANGED varsB

RunEnded == pcA \in {"returned", "returned_none", "raised"}

\* the request is over; the service waits for the next one
FinishA ==
  /\ RunEnded \/ pcA \in {"bad_history", "escaped"}
  /\ (caller = "http" /\ pcA # "escaped") => resp # NoResponse
  /\ pcA' = "idle"
  /\ caller' = "none"
  /\ history' = <<>>
  /\ conversation' = <<>>
  /\ retries' = 0
  /\ attempt' = 0
  /\ backoff' = 0
  /\ last_exc' = <<>>
  /\ result' = <<>>
  /\ error' = <<>>
  /\ resp' = NoResponse
  /\ calls' = 0
  /\ events' = <<>>
  /\ UNCHANGED varsB

InitA ==
  /\ pcA = "idle"
  /\ caller = "none"
  /\ history = <<>>
  /\ conversation = <<>>
  /\ retries = 0
  /\ attempt = 0
  /\ backoff = 0
  /\ last_exc = <<>>
  /\ result = <<>>
  /\ error = <<>>
  /\ resp = NoResponse
  /\ calls = 0
  /\ events = <<>>

NextA ==
  \/ \E h \in Histories : HandleSubmit(h)
  \/ \E kind \in MalformedBodies : HandleMalformed(kind)
  \/ \E h \in Histories, n \in RetriesArgs : CallChat(h, n)
  \/ \E text \in ResponseTexts : AttemptSucceeds(text)
  \/ \E e \in FailureMessages : AttemptFails(e)
  \/ Respond
  \/ FinishA

(* ----------------------- inputs of Service B -------------------------- *)
\* the message field of a request
Questions == { <<"Q","1">>, <<"q","1">>, <<"Q","1"," ">> }

\* response.text of the generation call of Service B
AnswerTexts == { <<"A","1">>, <<"A","2","\n">> }

Reqs == 1..NumReqs

(* -------------------- Service B: the table ---------------------------- *)
KeyMatchNoCase(stored, key) == LowerStr(stored) = LowerStr(key)

\* WHERE question = ?   (TEXT column, default BINARY collation)
KeyMatch(stored, key) == stored = key

MatchingRows(st, q) == { i \in 1..Len(st) : KeyMatch(st[i].question, q) }

FetchOneNever(st, q) == 0

FetchOneLatest(st, q) ==
  IF MatchingRows(st, q) = {} THEN 0
  ELSE CHOOSE i \in MatchingRows(st, q) : \A j \in MatchingRows(st, q) : i >= j

\* cursor.fetchone() after the SELECT: the first matching row in rowid
\* order, as an index into the table; 0 stands for None
FetchOne(st, q) ==
  IF MatchingRows(st, q) = {} THEN 0
  ELSE CHOOSE i \in MatchingRows(st, q) : \A j \in MatchingRows(st, q) : i <= j

NewRow(st, q, r) == [id |-> Len(st) + 1, question |-> q, response |-> r]

InsertRowOrReplace(st, q, r) ==
  IF FetchOne(st, q) = 0 THEN Append(st, NewRow(st, q, r))
  ELSE [st EXCEPT ![FetchOne(st, q)].response = r]

InsertRowOrIgnore(st, q, r) ==
  IF FetchOne(st, q) = 0 THEN Append(st, NewRow(st, q, r)) ELSE st

\* INSERT INTO chatbot_responses (question, response) VALUES (?, ?); commit
InsertRow(st, q, r) == Append(st, NewRow(st, q, r))

StoreAfterFailedCallCachesEmpty(st, q) == Append(st, NewRow(st, q, <<>>))

\* the table after generate_content raised in a request for q: the
\* exception leaves get_response before the INSERT and the commit
StoreAfterFailedCall(st, q) == st

\* chat_with_gemini(prompt) of Service B: return response.text.strip()
AnswerValue(text) == Strip(text)

InFlight(p) == bpc[p] \in {"miss", "generated"}

(* ------------------------ Service B: actions -------------------------- *)
\* a request arrives at a free slot (one that is idle or whose previous
\* request was answered or failed): get_response up to the branch on the SELECT's
\* result; on a hit the handler runs to its return without touching the
\* table again
Lookup(p, q) ==
  /\ bpc[p] \in {"idle", "done", "failed"}
  /\ served < MaxRequests
  /\ served' = served + 1
  /\ user_input' = [user_input EXCEPT ![p] = q]
  /\ reqCalls' = [reqCalls EXCEPT ![p] = 0]
  /\ overlapped' = (overlapped \/ \E o \in Reqs \ {p} : InFlight(o))
  /\ LET row == FetchOne(store, q)
     IN IF row # 0
        THEN /\ bot_response' = [bot_response EXCEPT ![p] = store[row].response]
             /\ was_hit' = [was_hit EXCEPT ![p] = TRUE]
             /\ bpc' = [bpc EXCEPT ![p] = "done"]
        ELSE /\ bot_response' = [bot_response EXCEPT ![p] = <<>>]
             /\ was_hit' = [was_hit EXCEPT ![p] = FALSE]
             /\ bpc' = [bpc EXCEPT ![p] = "miss"]
  /\ UNCHANGED <<store, genCalls, genFails, inserts>>
  /\ UNCHANGED varsA

\* the generation call of a request that missed returns text
Generate(p, text) ==
  /\ bpc[p] = "miss"
  /\ bot_response' = [bot_response EXCEPT ![p] = AnswerValue(text)]
  /\ reqCalls' = [reqCalls EXCEPT ![p] = @ + 1]
  /\ genCalls' = [genCalls EXCEPT ![user_input[p]] = @ + 1]
  /\ bpc' = [bpc EXCEPT ![p] = "generated"]
  /\ UNCHANGED <<store, user_input, was_hit, genFails, inserts, overlapped,
                 served>>
  /\ UNCHANGED varsA

\* the generation call of a request that missed raises: the exception
\* leaves chat_with_gemini and get_response, and the request fails
GenerateFails(p) ==
  /\ bpc[p] = "miss"
  /\ reqCalls' = [reqCalls EXCEPT ![p] = @ + 1]
  /\ genCalls' = [genCalls EXCEPT ![user_input[p]] = @ + 1]
  /\ genFails' = [genFails EXCEPT ![user_input[p]] = @ + 1]
  /\ store' = StoreAfterFailedCall(store, user_input[p])
  /\ bpc' = [bpc EXCEPT ![p] = "failed"]
  /\ UNCHANGED <<user_input, bot_response, was_hit, inserts, overlapped,
                 served>>
  /\ UNCHANGED varsA

\* INSERT, commit, close and return of a request that missed
InsertAnswer(p) ==
  /\ bpc[p] = "generated"
  /\ store' = InsertRow(store, user_input[p], bot_response[p])
  /\ inserts' = [inserts EXCEPT ![user_input[p]] = @ + 1]
  /\ bpc' = [bpc EXCEPT ![p] = "done"]
  /\ UNCHANGED <<user_input, bot_response, was_hit, reqCalls, genCalls,
                 genFails, overlapped, served>>
  /\ UNCHANGED varsA

\* init_db(): the table exists and, on a fresh file, is empty
InitB ==
  /\ store = <<>>
  /\ bpc = [p \in Reqs |-> "idle"]
  /\ user_input = [p \in Reqs |-> <<>>]
  /\ bot_response = [p \in Reqs |-> <<>>]
  /\ was_hit = [p \in Reqs |-> FALSE]
  /\ reqCalls = [p \in Reqs |-> 0]
  /\ genCalls = [q \in Questions |-> 0]
  /\ genFails = [q \in Questions |-> 0]
  /\ inserts = [q \in Questions |-> 0]
  /\ overlapped = FALSE
  /\ served = 0

NextB ==
  \/ \E p \in Reqs, q \in Questions : Lookup(p, q)
  \/ \E p \in Reqs, text \in AnswerTexts : Generate(p, text)
  \/ \E p \in Reqs : GenerateFails(p)
  \/ \E p \in Reqs : InsertAnswer(p)

(* --------------------------- specifications --------------------------- *)
Init == InitA /\ InitB

Next == NextA \/ NextB

\* Service A alone, Service B alone, and both side by side
SpecA == Init /\ [][NextA]_vars
SpecB == Init /\ [][NextB]_vars
Spec == Init /\ [][Next]_vars

(* ====================== properties of Service A ======================= *)
\* the markers as the specification lists them, matched case-insensitively
SpecMarkers == { Marker403, MarkerLeaked, MarkerInvalid, MarkerPermission }
HasMarker(e) ==
  LET folded == LowerStr(e) IN \E m \in SpecMarkers : Contains(folded, m)

IsCall(ev) == ev.type = "call"
IsSleep(ev) == ev.type = "sleep"
FailedCall(ev) == ev.type = "call" /\ ~ev.ok
TransientCall(ev) == FailedCall(ev) /\ ~HasMarker(ev.text)
SleepsOf(log) == SelectSeq(log, IsSleep)
CallsOf(log) == SelectSeq(log, IsCall)
AllCallsTransient == \A i \in 1..Len(events) : IsCall(events[i]) => TransientCall(events[i])

\* C1: a failure whose message contains one of the markers 403, leaked,
\* invalid, permission (in any letter case) ends the run at that attempt,
\* whatever the attempt number: the failed call is the last entry of the
\* run's log (no sleep and no call follows it), the run raises the
\* non-retryable error "Generative API error: <message>" and not the
\* retries-exhausted one, and the number of calls is that attempt's number
\* (so a marker on the first failure means exactly one call).
C1_MarkerAborts ==
  \A i \in 1..Len(events) :
    (FailedCall(events[i]) /\ HasMarker(events[i].text)) =>
      /\ i = Len(events)
      /\ pcA = "raised"
      /\ error = PrefixNonRetryable \o events[i].text
      /\ ~StartsWith(error, PrefixExhausted)
      /\ calls = events[i].attempt
      /\ Len(CallsOf(events)) = events[i].attempt
      /\ events[i].attempt \in 1..retries

\* C1 witness: a marker in upper case on the final attempt of a run of
\* several attempts, reported as non-retryable
C1_Witness ==
  /\ pcA = "raised"
  /\ retries = 3
  /\ calls = 3
  /\ last_exc = <<"K","e","y"," ","L","E","A","K","E","D">>
  /\ StartsWith(error, PrefixNonRetryable)

\* C2: with retries = N >= 1, a run in which every call failed transiently
\* ends after exactly N calls by raising "Generative API failed after N
\* attempts: <last message>", a message that no non-retryable error carries.
C2_Exhausted ==
  (RunEnded /\ retries >= 1 /\ AllCallsTransient) =>
    /\ calls = retries
    /\ Len(CallsOf(events)) = retries
    /\ pcA = "raised"
    /\ error = PrefixExhausted \o IntToStr(retries) \o InfixAttempts \o last_exc
    /\ ~StartsWith(error, PrefixNonRetryable)
    /\ \A e \in FailureMessages : error # PrefixNonRetryable \o e

\* C2 witness: three transient failures with retries = 3
C2_Witness ==
  /\ pcA = "raised"
  /\ retries = 3
  /\ calls = 3
  /\ AllCallsTransient
  /\ StartsWith(error, PrefixExhausted)

\* C3: a successful call is the last entry of the run's log; if k transient
\* failures precede it (0 <= k < retries) the capability was called k + 1
\* times and the run returns the trimmed text of the successful call.
C3_SuccessEndsRun ==
  \A i \in 1..Len(events) :
    (IsCall(events[i]) /\ events[i].ok) =>
      /\ i = Len(events)
      /\ pcA = "returned"
      /\ result = Strip(events[i].text)
      /\ \A j \in 1..(i - 1) : IsCall(events[j]) => TransientCall(events[j])
      /\ calls = Len(CallsOf(events))
      /\ calls = events[i].attempt
      /\ calls <= retries

\* C3 witness: two transient failures, sleeps of 1 and 2, then a success
\* whose text carries surrounding whitespace
C3_Witness ==
  /\ pcA = "returned"
  /\ calls = 3
  /\ Len(events) = 5
  /\ events[2].secs = 1
  /\ events[4].secs = 2
  /\ events[5].text = <<" ","h","i","\n">>
  /\ result = <<"h","i">>

\* every sleep directly follows a transient failure of an attempt
\* n < retries and directly precedes attempt n + 1
SleepPlacement ==
  \A i \in 1..Len(events) :
    IsSleep(events[i]) =>
      /\ i > 1
      /\ TransientCall(events[i - 1])
      /\ events[i - 1].attempt = events[i].attempt
      /\ events[i].attempt < retries
      /\ IF i < Len(events)
         THEN IsCall(events[i + 1]) /\ events[i + 1].attempt = events[i].attempt + 1
         ELSE pcA = "attempting" /\ attempt = events[i].attempt + 1

\* the i-th sleep of a run lasts min(2^(i-1), 10)
SleepDurations ==
  LET sl == SleepsOf(events)
  IN \A k \in 1..Len(sl) : sl[k].secs = Min(2 ^ (k - 1), 10)

\* C4: sleeps only between a transient failure and the next
\* attempt, durations 1, 2, 4, 8, 10, 10, ..., and at the end of ANY run
\* the number of sleeps is the number of calls minus one.
C4_AsStated ==
  /\ SleepPlacement
  /\ SleepDurations
  /\ RunEnded => Len(SleepsOf(events)) = calls - 1

\* the same with the count stated for the runs that made at least one
\* call, where it holds; a run with retries < 1 makes no call and no sleep
C4_Backoff ==
  /\ SleepPlacement
  /\ SleepDurations
  /\ (RunEnded /\ calls >= 1) => Len(SleepsOf(events)) = calls - 1
  /\ (RunEnded /\ calls = 0) => (retries < 1 /\ events = <<>>)

\* a run of seven attempts that slept 1, 2, 4, 8, 10, 10
C4_Witness ==
  /\ RunEnded
  /\ calls = 7
  /\ [k \in 1..Len(SleepsOf(events)) |-> SleepsOf(events)[k].secs] = <<1, 2, 4, 8, 10, 10>>

\* C5: handle_submit answers a run that raised (non-retryable or retries
\* exhausted) with 500 and {error: 'Internal server error', detail: the
\* failure's message}, and a run that returned with 200 and {response:
\* text}; every ended run of a request has such an answer available.
C5_HttpBoundary ==
  /\ (caller = "http" /\ resp # NoResponse) =>
       /\ pcA = "raised" =>
            /\ resp.status = 500
            /\ resp.body = { <<"error", InternalServerError>>, <<"detail", error>> }
            /\ \/ error = PrefixNonRetryable \o last_exc
               \/ error = PrefixExhausted \o IntToStr(3) \o InfixAttempts \o last_exc
       /\ pcA = "returned" =>
            /\ resp.status = 200
            /\ resp.body = { <<"response", result>> }
  /\ (caller = "http" /\ RunEnded /\ resp = NoResponse) => ENABLED Respond

\* C5 witness: a request answered 500 after its retries were exhausted
C5_Witness ==
  /\ caller = "http"
  /\ resp.status = 500
  /\ StartsWith(error, PrefixExhausted)
  /\ <<"detail", error>> \in resp.body

(* ---------------------- prompt assembly (C11) ------------------------ *)
\* the line the specification gives for one turn
PromptLine(turn) ==
  (IF "role" \in DOMAIN turn /\ turn.role = <<"u","s","e","r">>
   THEN <<"Y","o","u",":"," ">> ELSE <<"B","o","t",":"," ">>)
  \o (IF "content" \in DOMAIN turn THEN turn.content ELSE <<>>) \o <<"\n">>

\* where the line of turn i starts in the prompt: the lengths of the lines
\* of the turns before it
RECURSIVE LineStart(_, _)
LineStart(h, i) ==
  IF i = 1 THEN 0 ELSE LineStart(h, i - 1) + Len(PromptLine(h[i - 1]))

\* C11: while a run is under way the prompt is, for the history the run was
\* given, the lines of its turns laid end to end in input order: "You:
\* <content>\n" for a turn whose role is exactly 'user', "Bot: <content>\n"
\* for any other or missing role; nothing else is in the prompt, and for
\* [{user, hi}, {bot, hello}] it is "You: hi\nBot: hello\n".
C11_PromptAssembly ==
  pcA # "idle" =>
    /\ \A i \in 1..Len(history) :
         SubSeq(conversation, LineStart(history, i) + 1,
                LineStart(history, i) + Len(PromptLine(history[i])))
           = PromptLine(history[i])
    /\ Len(conversation) = LineStart(history, Len(history) + 1)
    /\ history = << [role |-> <<"u","s","e","r">>, content |-> <<"h","i">>],
                    [role |-> <<"b","o","t">>, content |-> <<"h","e","l","l","o">>] >>
         => conversation = <<"Y","o","u",":"," ","h","i","\n",
                             "B","o","t",":"," ","h","e","l","l","o","\n">>

\* C11 witness: a run on a history whose second turn has no role
C11_Witness ==
  /\ pcA = "attempting"
  /\ Len(history) = 2
  /\ IsUserTurn(history[1])
  /\ "role" \notin DOMAIN history[2]
  /\ conversation = <<"Y","o","u",":"," ","h","i","\n","B","o","t",":"," ","x","\n">>

(* ------------------ the retry state machine (C12, C14) ---------------- *)
LastEvent == events[Len(events)]

\* the run ended in Success, NonRetryableFailure or ExhaustedFailure
EndedInSuccess ==
  /\ pcA = "returned"
  /\ calls >= 1
  /\ events # <<>>
  /\ IsCall(LastEvent) /\ LastEvent.ok
  /\ result = Strip(LastEvent.text)
EndedInNonRetryable ==
  /\ pcA = "raised"
  /\ HasMarker(last_exc)
  /\ error = PrefixNonRetryable \o last_exc
EndedInExhausted ==
  /\ pcA = "raised"
  /\ ~HasMarker(last_exc)
  /\ attempt = retries
  /\ error = PrefixExhausted \o IntToStr(retries) \o InfixAttempts \o last_exc

\* the states and counts of Attempting(n), Success, NonRetryableFailure
\* and ExhaustedFailure
RetryMachine ==
  /\ calls <= retries
  /\ pcA = "attempting" =>
       /\ attempt \in 1..retries
       /\ calls = attempt - 1
       /\ calls < retries
       /\ Len(SleepsOf(events)) = attempt - 1
  /\ RunEnded => (EndedInSuccess \/ EndedInNonRetryable \/ EndedInExhausted)

\* C12: in every state of a run the attempt number is between 1 and max,
\* the calls made do not exceed max, Attempting(n + 1) is entered only
\* after a sleep, and the run ends only in Success, NonRetryableFailure or
\* ExhaustedFailure, after at most max calls.
C12_StateMachine == pcA # "idle" => RetryMachine

\* the same for the runs with max >= 1, where it holds
RetryMachineForPositiveMax == (pcA # "idle" /\ retries >= 1) => RetryMachine

\* C14: for every value of retries a run ends by returning the text of a
\* capability call or by raising one of the two fatal errors.
C14_TextOrError ==
  RunEnded =>
    \/ EndedInSuccess
    \/ pcA = "raised" /\ (StartsWith(error, PrefixNonRetryable)
                           \/ StartsWith(error, PrefixExhausted))

(* ----------------------- malformed bodies (C13) ----------------------- *)
IsJsonAnswer(r) ==
  \/ r.status = 200 /\ \E text \in {result} : r.body = { <<"response", text>> }
  \/ r.status = 500 /\ \E detail \in {error} :
       r.body = { <<"error", InternalServerError>>, <<"detail", detail>> }

\* C13: every request to /api/submit, malformed or not, whose handling
\* came to an end was answered, or is about to be answered, with
\* 200 {response} or 500 {error, detail}: no failure leaves the handler
\* unconverted.
C13_AlwaysJson ==
  (caller = "http" /\ pcA \in {"returned", "raised", "bad_history", "escaped"}) =>
    \/ IsJsonAnswer(resp)
    \/ resp = NoResponse /\ ENABLED Respond

\* the same for the failures that arise inside the try block, where it holds
JsonForFailuresInsideTry ==
  (caller = "http" /\ pcA \in {"returned", "raised", "bad_history"}) =>
    \/ IsJsonAnswer(resp)
    \/ resp = NoResponse /\ ENABLED Respond

(* ====================== properties of Service B ======================= *)
\* rows whose question is the very string q
ExactRows(q) == { i \in 1..Len(store) : store[i].question = q }
Answered(p) == bpc[p] = "done"
HitAnswered(p) == bpc[p] = "done" /\ was_hit[p]
MissAnswered(p) == bpc[p] = "done" /\ ~was_hit[p]
GeneratedFor(q) == { p \in Reqs : bpc[p] = "generated" /\ user_input[p] = q }

\* C6: a request answered from the store made no capability call and
\* returns the response of an entry for its question; a request that found
\* no entry made exactly one call, and its (question, response) pair is in
\* the store when it is answered. When requests are handled one after
\* another, a request in flight found no entry for its question, and each
\* question costs at most one capability call that returned and has at
\* most one entry: a second request for the same string is answered from
\* the store.
C6_HitOrMiss ==
  /\ \A p \in Reqs :
       /\ HitAnswered(p) =>
            /\ reqCalls[p] = 0
            /\ \E i \in ExactRows(user_input[p]) : store[i].response = bot_response[p]
       /\ MissAnswered(p) =>
            /\ reqCalls[p] = 1
            /\ \E i \in ExactRows(user_input[p]) : store[i].response = bot_response[p]
       /\ bpc[p] = "miss" => reqCalls[p] = 0
       /\ bpc[p] = "generated" => reqCalls[p] = 1
  /\ ~overlapped =>
       /\ \A p \in Reqs : InFlight(p) => ExactRows(user_input[p]) = {}
       /\ \A q \in Questions :
            /\ genCalls[q] - genFails[q] <= 1
            /\ Cardinality(ExactRows(q)) = inserts[q]
            /\ genCalls[q] - genFails[q] = inserts[q] + Cardinality(GeneratedFor(q))
            /\ \A p \in Reqs :
                 (HitAnswered(p) /\ user_input[p] = q) =>
                   /\ genCalls[q] - genFails[q] = 1
                   /\ \A i \in ExactRows(q) : bot_response[p] = store[i].response

\* C6 witness: handled one after another, a first request for "Q1" missed,
\* called once and stored its answer, and a second one was answered from
\* the store with that answer
C6_Witness ==
  /\ ~overlapped
  /\ served = 2
  /\ genCalls[<<"Q","1">>] = 1
  /\ genFails[<<"Q","1">>] = 0
  /\ Len(store) = 1
  /\ store[1].question = <<"Q","1">>
  /\ \E p \in Reqs :
       /\ HitAnswered(p)
       /\ user_input[p] = <<"Q","1">>
       /\ bot_response[p] = store[1].response

\* C7: at most one entry per distinct question string, in every state.
C7_UniqueQuestion ==
  \A i, j \in 1..Len(store) :
    store[i].question = store[j].question => i = j

\* C8: nothing serialises two requests that missed on the same question: a
\* request that observed a miss can always make its capability call, a
\* request that got its answer can always insert, and every INSERT
\* executed adds a row whether or not the question already has one, so the
\* rows of a question are as many as the inserts executed for it and its
\* capability calls that returned as many as those inserts plus the calls
\* not yet stored.
C8_RaceIsOpen ==
  /\ \A p \in Reqs :
       /\ bpc[p] = "miss" => \A text \in AnswerTexts : ENABLED Generate(p, text)
       /\ bpc[p] = "generated" => ENABLED InsertAnswer(p)
  /\ \A q \in Questions :
       /\ Cardinality(ExactRows(q)) = inserts[q]
       /\ genCalls[q] - genFails[q] = inserts[q] + Cardinality(GeneratedFor(q))

\* C8 witness: two overlapping requests for "Q1" both missed, both called
\* the capability and both inserted
C8_Witness ==
  /\ overlapped
  /\ served = 2
  /\ genCalls[<<"Q","1">>] = 2
  /\ genFails[<<"Q","1">>] = 0
  /\ inserts[<<"Q","1">>] = 2
  /\ Cardinality(ExactRows(<<"Q","1">>)) = 2
  /\ \A p \in {1, 2} : MissAnswered(p) /\ user_input[p] = <<"Q","1">>

\* C9: every step keeps the existing entries as they are, in place; a
\* request answered from the store leaves the store unchanged, and a miss
\* appends exactly one entry, the request's (question, response) pair.
C9_AppendOnly ==
  [][ /\ Len(store') >= Len(store)
      /\ Len(store') <= Len(store) + 1
      /\ \A i \in 1..Len(store) : store'[i] = store[i]
      /\ served' # served => store' = store
      /\ \A p \in Reqs :
           (bpc[p] = "generated" /\ bpc'[p] = "done") =>
             /\ Len(store') = Len(store) + 1
             /\ store'[Len(store')].question = user_input[p]
             /\ store'[Len(store')].response = bot_response[p]
    ]_vars

\* C9 witness: a store that grew to two entries for one question, read by
\* a request answered from it
C9_Witness ==
  /\ Cardinality(ExactRows(<<"Q","1">>)) = 2
  /\ \E p \in Reqs : HitAnswered(p) /\ user_input[p] = <<"Q","1">>

\* C10: a request is answered from the store only through an entry whose
\* question is identical to the request's string; handled one after
\* another, every answered request leaves an entry with exactly its own
\* string, so strings that differ in case or whitespace each cost one
\* capability call that returned and each get their own entry.
C10_ExactKey ==
  /\ \A p \in Reqs :
       HitAnswered(p) =>
         \E i \in 1..Len(store) :
           /\ store[i].question = user_input[p]
           /\ store[i].response = bot_response[p]
  /\ ~overlapped =>
       \A p \in Reqs :
         Answered(p) =>
           /\ Cardinality(ExactRows(user_input[p])) = 1
           /\ genCalls[user_input[p]] - genFails[user_input[p]] = 1

\* C10 witness: "Q1", "q1" and "Q1 " asked one after another: three
\* capability calls and three separate entries
C10_Witness ==
  /\ ~overlapped
  /\ served = 3
  /\ Len(store) = 3
  /\ \A q \in Questions :
       genCalls[q] = 1 /\ genFails[q] = 0 /\ Cardinality(ExactRows(q)) = 1

(* ------------------ failed capability calls (C15) --------------------- *)
\* C15: a request fails only after a miss and one capability call, never
\* after a hit; the step in which the call fails leaves the store and the
\* count of inserts as they were, so failed calls never account for an
\* entry; a request that arrives while the store has no entry for its
\* question is a miss, and a request that missed can call the capability
\* (again): handled one after another, a failed request for q leaves q
\* without an entry as long as no call for q has returned.
C15_FailedMiss ==
  /\ [](\A p \in Reqs :
          /\ bpc[p] = "failed" => (~was_hit[p] /\ reqCalls[p] = 1)
          /\ HitAnswered(p) => reqCalls[p] = 0
          /\ bpc[p] = "miss" =>
               /\ ENABLED GenerateFails(p)
               /\ \A text \in AnswerTexts : ENABLED Generate(p, text))
  /\ [](\A q \in Questions :
          /\ Cardinality(ExactRows(q)) + Cardinality(GeneratedFor(q)) + genFails[q]
               = genCalls[q]
          /\ (~overlapped /\ genCalls[q] = genFails[q]) => ExactRows(q) = {})
  /\ [][\A p \in Reqs :
          /\ (bpc[p] = "miss" /\ bpc'[p] = "failed") =>
               /\ store' = store
               /\ inserts' = inserts
               /\ genCalls'[user_input[p]] = genCalls[user_input[p]] + 1
          /\ (served' # served /\ bpc'[p] # bpc[p]
                /\ ExactRows(user_input'[p]) = {}) => bpc'[p] = "miss"
     ]_vars

\* C15 witness: handled one after another, a request for "Q1" failed, the
\* next one for "Q1" missed again, called the capability a second time and
\* stored the answer
C15_Witness ==
  /\ ~overlapped
  /\ served = 2
  /\ genFails[<<"Q","1">>] = 1
  /\ genCalls[<<"Q","1">>] = 2
  /\ Cardinality(ExactRows(<<"Q","1">>)) = 1
  /\ \E p \in Reqs : MissAnswered(p) /\ user_input[p] = <<"Q","1">>

(* ------------------- hits under duplicate rows (C16) ------------------ *)
EarliestRow(q) == CHOOSE i \in ExactRows(q) : \A j \in ExactRows(q) : i <= j

====
